---------------------------- MODULE Spec2Model ----------------------------
(***************************************************************************)
(* Model of the drone-1password secret plugin: the path parser, the field  *)
(* selector, the 1Password Connect client and plugin.Find.                 *)
(*                                                                         *)
(* Go strings are sequences of one-character strings, so that SplitN,      *)
(* TrimSpace and EqualFold are computed character by character.            *)
(***************************************************************************)
EXTENDS Integers, Sequences, FiniteSets, TLC

VARIABLES
    fn,             \* the function a run applies: "parseSecretPath", "selectFieldValue", "Find"
    args,           \* its arguments
    ret,            \* what it returned, NotCalled before it returns
    pc,             \* where Find stands
    local,          \* Find's locals: vaultName, itemTitle, fieldSelector, vault, itemSummary, item
    calls           \* the requests Find sent to the store, in order, each with its response

vars == <<fn, args, ret, pc, local, calls>>

(***************************************************************************)
(* Strings                                                                 *)
(***************************************************************************)
EmptyString == <<>>

Slash == "/"

\* unicode.IsSpace, restricted to the characters of the model
IsSpace(c) == c \in {" ", "\t", "\n", "\r"}

\* unicode.ToLower on ASCII letters (simple case folding)
ToLower(c) ==
    CASE c = "A" -> "a"
      [] c = "B" -> "b"
      [] c = "C" -> "c"
      [] c = "D" -> "d"
      [] c = "E" -> "e"
      [] c = "F" -> "f"
      [] c = "G" -> "g"
      [] c = "H" -> "h"
      [] c = "I" -> "i"
      [] c = "J" -> "j"
      [] c = "K" -> "k"
      [] c = "L" -> "l"
      [] c = "M" -> "m"
      [] c = "N" -> "n"
      [] c = "O" -> "o"
      [] c = "P" -> "p"
      [] c = "Q" -> "q"
      [] c = "R" -> "r"
      [] c = "S" -> "s"
      [] c = "T" -> "t"
      [] c = "U" -> "u"
      [] c = "V" -> "v"
      [] c = "W" -> "w"
      [] c = "X" -> "x"
      [] c = "Y" -> "y"
      [] c = "Z" -> "z"
      [] OTHER -> c

\* strings.EqualFold(s, t)
EqualFold(s, t) ==
    /\ Len(s) = Len(t)
    /\ \A i \in 1..Len(s) : ToLower(s[i]) = ToLower(t[i])

RECURSIVE TrimLeft(_)
TrimLeft(s) ==
    IF s # <<>> /\ IsSpace(Head(s)) THEN TrimLeft(Tail(s)) ELSE s

RECURSIVE TrimRight(_)
TrimRight(s) ==
    IF s # <<>> /\ IsSpace(s[Len(s)])
    THEN TrimRight(SubSeq(s, 1, Len(s) - 1))
    ELSE s

\* strings.TrimSpace(s)
TrimSpace(s) == TrimRight(TrimLeft(s))

\* strings.Index(s, sep) for a one-character sep; 0 when sep is absent
RECURSIVE IndexFrom(_, _, _)
IndexFrom(s, c, i) ==
    IF i > Len(s) THEN 0
    ELSE IF s[i] = c THEN i
    ELSE IndexFrom(s, c, i + 1)

\* strings.SplitN(s, sep, n) for n >= 1: at most n parts, the last one the
\* unsplit remainder
RECURSIVE SplitN(_, _, _)
SplitN(s, sep, n) ==
    LET i == IndexFrom(s, sep, 1) IN
    IF n <= 1 \/ i = 0
    THEN <<s>>
    ELSE <<SubSeq(s, 1, i - 1)>> \o SplitN(SubSeq(s, i + 1, Len(s)), sep, n - 1)

(***************************************************************************)
(* Errors: a Go error is a record of its kind, its format string and the   *)
(* values formatted into it; NoError is nil.                               *)
(***************************************************************************)
NoError == [type |-> "nil"]

Errorf(format, fmtArgs) ==
    [type |-> "errorString", msg |-> format, args |-> fmtArgs]

IsError(e) == e.type # "nil"

\* the value of ret before and after the function of the run returns
NotCalled == [called |-> FALSE]

Returned(r) == [called |-> TRUE, out |-> r]

(***************************************************************************)
(* parseSecretPath                                                         *)
(***************************************************************************)
\* the parser splitting at every "/": strings.Split in place of SplitN(path, "/", 3)
parseSecretPath_Split(path) ==
    LET all == SplitN(path, Slash, Len(path) + 1)
        parts == IF Len(all) > 3 THEN SubSeq(all, 1, 3) ELSE all
        vault == TrimSpace(parts[1])
        item  == TrimSpace(parts[2])
    IN  IF Len(parts) < 2
        THEN [vault |-> EmptyString, item |-> EmptyString, field |-> EmptyString,
              err |-> Errorf("secret path must be formatted as vault/item[/field]", <<>>)]
        ELSE IF vault = EmptyString \/ item = EmptyString
        THEN [vault |-> EmptyString, item |-> EmptyString, field |-> EmptyString,
              err |-> Errorf("vault and item names cannot be empty", <<>>)]
        ELSE [vault |-> vault, item |-> item,
              field |-> IF Len(parts) = 3 THEN TrimSpace(parts[3]) ELSE EmptyString,
              err |-> NoError]

parseSecretPath(path) ==
    LET parts == SplitN(path, Slash, 3)
        vault == TrimSpace(parts[1])
        item  == TrimSpace(parts[2])
    IN  IF Len(parts) < 2
        THEN [vault |-> EmptyString, item |-> EmptyString, field |-> EmptyString,
              err |-> Errorf("secret path must be formatted as vault/item[/field]", <<>>)]
        ELSE IF vault = EmptyString \/ item = EmptyString
        THEN [vault |-> EmptyString, item |-> EmptyString, field |-> EmptyString,
              err |-> Errorf("vault and item names cannot be empty", <<>>)]
        ELSE [vault |-> vault, item |-> item,
              field |-> IF Len(parts) = 3 THEN TrimSpace(parts[3]) ELSE EmptyString,
              err |-> NoError]


(***************************************************************************)
(* Items (plugin/types.go).  A field's Section is a pointer: NilSection is *)
(* the nil pointer.                                                        *)
(***************************************************************************)
NilSection == [isNil |-> TRUE, ID |-> EmptyString]

SectionRef(id) == [isNil |-> FALSE, ID |-> id]

PASSWORD == <<"P", "A", "S", "S", "W", "O", "R", "D">>

password == <<"p", "a", "s", "s", "w", "o", "r", "d">>

notes == <<"n", "o", "t", "e", "s">>

notesPlain == <<"n", "o", "t", "e", "s", "P", "l", "a", "i", "n">>

\* the (string, error) pair a lookup returns
Found(v) == [value |-> v, err |-> NoError]

Failed(e) == [value |-> EmptyString, err |-> e]

(***************************************************************************)
(* The field selector                                                      *)
(***************************************************************************)
\* strings.SplitN(label, "/", 2), both parts trimmed; no section part when
\* the label holds no "/"
splitQualifiedLabel(label) ==
    LET parts == SplitN(label, Slash, 2) IN
    IF Len(parts) = 1
    THEN [section |-> EmptyString, field |-> TrimSpace(parts[1])]
    ELSE [section |-> TrimSpace(parts[1]), field |-> TrimSpace(parts[2])]

\* findFieldByLabel returning the first of several matches
findFieldByLabel_First(item, label) ==
    LET fieldLabel == TrimSpace(label)
        Match(field) == EqualFold(field.Label, fieldLabel) /\ field.Value # EmptyString
        matches == SelectSeq(item.Fields, Match)
    IN  IF Len(matches) = 0
        THEN Failed(Errorf("field %q not found in item %q", <<fieldLabel, item.Title>>))
        ELSE Found(matches[1].Value)

findFieldByLabel(item, label) ==
    LET fieldLabel == TrimSpace(label)
        Match(field) == EqualFold(field.Label, fieldLabel) /\ field.Value # EmptyString
        matches == SelectSeq(item.Fields, Match)
    IN  CASE Len(matches) = 0 ->
               Failed(Errorf("field %q not found in item %q", <<fieldLabel, item.Title>>))
          [] Len(matches) = 1 ->
               Found(matches[1].Value)
          [] OTHER ->
               Failed(Errorf("field label %q is ambiguous in item %q; use a section-qualified label",
                             <<fieldLabel, item.Title>>))

\* findFieldInSection keeping one section id, the last one that matches,
\* instead of the set of them
findFieldInSection_OneID(item, sectionLabel, fieldLabel) ==
    LET hits == {j \in 1..Len(item.Sections) :
                    EqualFold(item.Sections[j].Label, sectionLabel)}
        sectionIDs == IF hits = {} THEN {}
                      ELSE {item.Sections[CHOOSE j \in hits : \A k \in hits : k <= j].ID}
        Match(field) ==
            /\ ~field.Section.isNil
            /\ field.Section.ID \in sectionIDs
            /\ EqualFold(field.Label, fieldLabel)
            /\ field.Value # EmptyString
        matches == SelectSeq(item.Fields, Match)
    IN  IF sectionIDs = {}
        THEN Failed(Errorf("section %q not found in item %q", <<sectionLabel, item.Title>>))
        ELSE CASE Len(matches) = 0 ->
                    Failed(Errorf("field %q not found in section %q", <<fieldLabel, sectionLabel>>))
               [] Len(matches) = 1 ->
                    Found(matches[1].Value)
               [] OTHER ->
                    Failed(Errorf("field %q is duplicated in section %q", <<fieldLabel, sectionLabel>>))

findFieldInSection(item, sectionLabel, fieldLabel) ==
    LET sectionIDs == {item.Sections[i].ID : i \in
                          {j \in 1..Len(item.Sections) :
                              EqualFold(item.Sections[j].Label, sectionLabel)}}
        Match(field) ==
            /\ ~field.Section.isNil
            /\ field.Section.ID \in sectionIDs
            /\ EqualFold(field.Label, fieldLabel)
            /\ field.Value # EmptyString
        matches == SelectSeq(item.Fields, Match)
    IN  IF sectionIDs = {}
        THEN Failed(Errorf("section %q not found in item %q", <<sectionLabel, item.Title>>))
        ELSE CASE Len(matches) = 0 ->
                    Failed(Errorf("field %q not found in section %q", <<fieldLabel, sectionLabel>>))
               [] Len(matches) = 1 ->
                    Found(matches[1].Value)
               [] OTHER ->
                    Failed(Errorf("field %q is duplicated in section %q", <<fieldLabel, sectionLabel>>))

\* defaultPassword returning the first candidate when there are several
defaultPassword_First(item) ==
    LET Match(field) == EqualFold(field.Purpose, PASSWORD) /\ field.Value # EmptyString
        matches == SelectSeq(item.Fields, Match)
    IN  IF Len(matches) = 0
        THEN findFieldByLabel(item, password)
        ELSE Found(matches[1].Value)

\* defaultPassword without the test that skips fields whose value is empty
defaultPassword_KeepEmpty(item) ==
    LET Match(field) == EqualFold(field.Purpose, PASSWORD)
        matches == SelectSeq(item.Fields, Match)
    IN  CASE Len(matches) = 1 ->
               Found(matches[1].Value)
          [] Len(matches) = 0 ->
               findFieldByLabel(item, password)
          [] OTHER ->
               Failed(Errorf("item %q defines multiple password fields; specify the desired field label",
                             <<item.Title>>))

defaultPassword(item) ==
    LET Match(field) == EqualFold(field.Purpose, PASSWORD) /\ field.Value # EmptyString
        matches == SelectSeq(item.Fields, Match)
    IN  CASE Len(matches) = 1 ->
               Found(matches[1].Value)
          [] Len(matches) = 0 ->
               findFieldByLabel(item, password)
          [] OTHER ->
               Failed(Errorf("item %q defines multiple password fields; specify the desired field label",
                             <<item.Title>>))

\* selectFieldValue knowing the keyword "notes" only
selectFieldValue_NotesOnly(item, selector) ==
    IF selector = EmptyString
    THEN defaultPassword(item)
    ELSE IF EqualFold(selector, notes)
    THEN IF item.NotesPlain = EmptyString
         THEN Failed(Errorf("item %q does not contain notes", <<item.Title>>))
         ELSE Found(item.NotesPlain)
    ELSE LET q == splitQualifiedLabel(selector) IN
         IF q.section # EmptyString
         THEN findFieldInSection(item, q.section, q.field)
         ELSE findFieldByLabel(item, q.field)

selectFieldValue(item, selector) ==
    IF selector = EmptyString
    THEN defaultPassword(item)
    ELSE IF EqualFold(selector, notes) \/ EqualFold(selector, notesPlain)
    THEN IF item.NotesPlain = EmptyString
         THEN Failed(Errorf("item %q does not contain notes", <<item.Title>>))
         ELSE Found(item.NotesPlain)
    ELSE LET q == splitQualifiedLabel(selector) IN
         IF q.section # EmptyString
         THEN findFieldInSection(item, q.section, q.field)
         ELSE findFieldByLabel(item, q.field)


(***************************************************************************)
(* The Connect client.  A response of the store is either a transport      *)
(* failure (httpClient.Do returns an error) or a status with a body; a     *)
(* body is text that is no JSON, a JSON error payload, a JSON array, or a  *)
(* JSON item.                                                              *)
(***************************************************************************)
NilVault == [isNil |-> TRUE, ID |-> EmptyString, Name |-> EmptyString]

NilItemSummary == [isNil |-> TRUE, ID |-> EmptyString, Title |-> EmptyString]

\* the zero fullItem, also the nil *fullItem of a failed getItem
ZeroItem == [Title |-> EmptyString, Fields |-> <<>>, Sections |-> <<>>, NotesPlain |-> EmptyString]

\* the error of httpClient.Do
TransportError(reason) == [type |-> "urlError", msg |-> "Get %q: %v", args |-> <<reason>>]

\* context.Canceled, the error of a cancelled context
Canceled == [type |-> "errorString", msg |-> "context canceled", args |-> <<>>]

\* the error of json.Decoder.Decode
DecodeError == [type |-> "jsonError", msg |-> "json: cannot unmarshal", args |-> <<>>]

apiError(statusCode, message) ==
    [type |-> "apiError", msg |-> "1Password Connect error (%d): %s",
     StatusCode |-> statusCode, Message |-> message]

\* json.Decode of the body into out: a slice takes an array, a fullItem takes
\* any JSON object (the fields it does not know are ignored); a body whose
\* read fails because the context of the request was cancelled gives the
\* error of the read
Decode(body, out) ==
    CASE body.json = "canceled" ->
            [err |-> Canceled, out |-> IF out = "slice" THEN <<>> ELSE ZeroItem]
      [] out = "slice" /\ body.json = "array" -> [err |-> NoError, out |-> body.list]
      [] out = "slice" -> [err |-> DecodeError, out |-> <<>>]
      [] out = "fullItem" /\ body.json = "item" -> [err |-> NoError, out |-> body.item]
      [] out = "fullItem" /\ body.json = "error" -> [err |-> NoError, out |-> ZeroItem]
      [] OTHER -> [err |-> DecodeError, out |-> ZeroItem]

\* the Message the error payload decodes to; "" when it does not decode
PayloadMessage(body) ==
    IF body.json = "error" THEN body.message ELSE ""

\* get treating every status from 200 on as a success
get_NoUpperBound(resp, out) ==
    IF resp.transport # ""
    THEN [err |-> TransportError(resp.transport), out |-> <<>>]
    ELSE IF resp.StatusCode >= 200
    THEN Decode(resp.Body, out)
    ELSE [err |-> apiError(resp.StatusCode,
                           IF PayloadMessage(resp.Body) # ""
                           THEN PayloadMessage(resp.Body) ELSE resp.Status),
          out |-> <<>>]

\* connectClient.get from the response on
get(resp, out) ==
    IF resp.transport # ""
    THEN [err |-> TransportError(resp.transport), out |-> <<>>]
    ELSE IF resp.StatusCode >= 200 /\ resp.StatusCode < 300
    THEN Decode(resp.Body, out)
    ELSE [err |-> apiError(resp.StatusCode,
                           IF PayloadMessage(resp.Body) # ""
                           THEN PayloadMessage(resp.Body) ELSE resp.Status),
          out |-> <<>>]

\* findVaultByName taking the first of several vaults
findVaultByName_First(resp, name) ==
    LET r == get(resp, "slice") IN
    IF IsError(r.err) THEN [out |-> NilVault, err |-> r.err]
    ELSE IF Len(r.out) = 0
    THEN [out |-> NilVault, err |-> Errorf("vault %q not found", <<name>>)]
    ELSE [out |-> r.out[1], err |-> NoError]

findVaultByName(resp, name) ==
    LET r == get(resp, "slice") IN
    IF IsError(r.err) THEN [out |-> NilVault, err |-> r.err]
    ELSE IF Len(r.out) = 0
    THEN [out |-> NilVault, err |-> Errorf("vault %q not found", <<name>>)]
    ELSE IF Len(r.out) > 1
    THEN [out |-> NilVault, err |-> Errorf("multiple vaults match name %q", <<name>>)]
    ELSE [out |-> r.out[1], err |-> NoError]

findItemByTitle(resp, vaultID, title) ==
    LET r == get(resp, "slice") IN
    IF IsError(r.err) THEN [out |-> NilItemSummary, err |-> r.err]
    ELSE IF Len(r.out) = 0
    THEN [out |-> NilItemSummary,
          err |-> Errorf("item %q not found in vault %q", <<title, vaultID>>)]
    ELSE IF Len(r.out) > 1
    THEN [out |-> NilItemSummary,
          err |-> Errorf("multiple items named %q found in vault %q", <<title, vaultID>>)]
    ELSE [out |-> r.out[1], err |-> NoError]

getItem(resp) ==
    LET r == get(resp, "fullItem") IN
    IF IsError(r.err) THEN [out |-> ZeroItem, err |-> r.err]
    ELSE [out |-> r.out, err |-> NoError]

\* the requests of the three operations: the path under the API root, made of
\* the given identifiers, and the filter
VaultsRequest(name) ==
    [path |-> "vaults", ids |-> <<>>, filter |-> <<"name", name>>]

ItemsRequest(vaultID, title) ==
    [path |-> "vaults/%s/items", ids |-> <<vaultID>>, filter |-> <<"title", title>>]

ItemRequest(vaultID, itemID) ==
    [path |-> "vaults/%s/items/%s", ids |-> <<vaultID, itemID>>, filter |-> <<>>]

(***************************************************************************)
(* plugin.Find                                                             *)
(***************************************************************************)
NilRequest == [isNil |-> TRUE, Name |-> EmptyString, Path |-> EmptyString]

NilSecret == [isNil |-> TRUE, Name |-> EmptyString, Data |-> EmptyString, PullRequest |-> FALSE]

Secret(name, data) == [isNil |-> FALSE, Name |-> name, Data |-> data, PullRequest |-> FALSE]

\* fmt.Errorf with a %w verb
Wrap(format, fmtArgs, cause) ==
    [type |-> "wrapError", msg |-> format, args |-> fmtArgs, cause |-> cause]

NoResponse ==
    [transport |-> "", StatusCode |-> 0, Status |-> "", Body |-> [json |-> "none"]]

Sent(request) == [req |-> request, answered |-> FALSE, resp |-> NoResponse]

Answer(resp) == [calls EXCEPT ![Len(calls)] = [@ EXCEPT !.answered = TRUE, !.resp = resp]]

\* Find returns (secret, err)
Return(secret, err) ==
    /\ ret' = Returned([secret |-> secret, err |-> err])
    /\ pc' = "done"

\* the checks of the request, accepting an empty name
checkRequest_NilOnly(req) ==
    IF req.isNil THEN Errorf("nil request", <<>>) ELSE NoError

\* the checks of the request before the path is parsed
checkRequest(req) ==
    IF req.isNil THEN Errorf("nil request", <<>>)
    ELSE IF req.Name = EmptyString THEN Errorf("secret name must not be empty", <<>>)
    ELSE NoError


(***************************************************************************)
(* Inputs                                                                  *)
(***************************************************************************)
\* every string of at most n characters of the alphabet
Strings(alphabet, n) == UNION {[1..k -> alphabet] : k \in 0..n}

MaxPathLen == 6

PathChars == {"a", "b", " ", Slash}

OnlyVault == <<"O", "n", "l", "y", "V", "a", "u", "l", "t">>

VaultBlankField == <<"V", "a", "u", "l", "t", "/", " ", "/", "F", "i", "e", "l", "d">>

Paths == Strings(PathChars, MaxPathLen) \cup {OnlyVault, VaultBlankField}

(***************************************************************************)
(* A run of parseSecretPath on one path                                    *)
(***************************************************************************)
\* Find is not running
NoFind ==
    /\ pc = "none"
    /\ local = [vaultName |-> EmptyString, itemTitle |-> EmptyString,
                fieldSelector |-> EmptyString, vault |-> NilVault,
                itemSummary |-> NilItemSummary, item |-> ZeroItem]
    /\ calls = <<>>

InitParse ==
    /\ fn = "parseSecretPath"
    /\ args \in {[path |-> p] : p \in Paths}
    /\ ret = NotCalled
    /\ NoFind

CallParse ==
    /\ fn = "parseSecretPath"
    /\ ~ret.called
    /\ ret' = Returned(parseSecretPath(args.path))
    /\ UNCHANGED <<fn, args, pc, local, calls>>

NextParse == CallParse

SpecParse == InitParse /\ [][NextParse]_vars


(***************************************************************************)
(* Items and selectors a run of selectFieldValue is applied to             *)
(***************************************************************************)
MaxFields == 2

MaxSections == 2

Password == <<"P", "a", "s", "s", "w", "o", "r", "d">>

Token == <<"T", "o", "k", "e", "n">>

Keys == <<"K", "e", "y", "s">>

Other == <<"O", "t", "h", "e", "r">>

Sample == <<"S", "a", "m", "p", "l", "e">>

\* unicode.ToUpper on ASCII letters
ToUpper(c) ==
    CASE c = "a" -> "A"
      [] c = "b" -> "B"
      [] c = "c" -> "C"
      [] c = "d" -> "D"
      [] c = "e" -> "E"
      [] c = "f" -> "F"
      [] c = "g" -> "G"
      [] c = "h" -> "H"
      [] c = "i" -> "I"
      [] c = "j" -> "J"
      [] c = "k" -> "K"
      [] c = "l" -> "L"
      [] c = "m" -> "M"
      [] c = "n" -> "N"
      [] c = "o" -> "O"
      [] c = "p" -> "P"
      [] c = "q" -> "Q"
      [] c = "r" -> "R"
      [] c = "s" -> "S"
      [] c = "t" -> "T"
      [] c = "u" -> "U"
      [] c = "v" -> "V"
      [] c = "w" -> "W"
      [] c = "x" -> "X"
      [] c = "y" -> "Y"
      [] c = "z" -> "Z"
      [] OTHER -> c

\* s in upper case, s in lower case
Upper(s) == [i \in 1..Len(s) |-> ToUpper(s[i])]

Lower(s) == [i \in 1..Len(s) |-> ToLower(s[i])]

SectionIDs == {<<"1">>, <<"2">>}

Values == {EmptyString, <<"x">>, <<"y">>}

\* The inputs are drawn from four families, one per lookup of selectFieldValue;
\* each varies what that lookup reads and some of what it must ignore.
\* default password lookup: purposes, labels and values vary
PasswordInputs ==
    [labels |-> {password, Password, Token}, values |-> Values,
     purposes |-> {EmptyString, PASSWORD, Password}, refs |-> {NilSection},
     sections |-> {}, notesSet |-> {EmptyString},
     selectors |-> {EmptyString}]

\* unqualified label lookup: labels, values and section membership vary
LabelInputs ==
    [labels |-> {password, Password, Token}, values |-> Values,
     purposes |-> {EmptyString}, refs |-> {NilSection, SectionRef(<<"1">>)},
     sections |-> {[ID |-> <<"1">>, Label |-> Keys]}, notesSet |-> {EmptyString},
     selectors |-> {password, PASSWORD, Token, <<" ">> \o Lower(Token), <<Slash>> \o Token}]

\* notes lookup: the notes and the labels of the fields vary
NotesInputs ==
    [labels |-> {notes, notesPlain, Token}, values |-> {EmptyString, <<"x">>},
     purposes |-> {EmptyString}, refs |-> {NilSection},
     sections |-> {}, notesSet |-> {EmptyString, <<"n">>},
     selectors |-> {notes, Upper(notes), notesPlain, Upper(notesPlain), Lower(notesPlain)}]

\* section-qualified lookup: sections, section membership, labels and values vary
SectionInputs ==
    [labels |-> {Token, Other}, values |-> Values,
     purposes |-> {EmptyString},
     refs |-> {NilSection} \cup {SectionRef(id) : id \in SectionIDs},
     sections |-> {[ID |-> <<"1">>, Label |-> Keys], [ID |-> <<"2">>, Label |-> Upper(Keys)],
                   [ID |-> <<"2">>, Label |-> Other]},
     notesSet |-> {EmptyString},
     selectors |-> {Keys \o <<Slash>> \o Token,
                    Lower(Other) \o <<" ", Slash, " ">> \o Upper(Token)}]

SelectInputs == {PasswordInputs, LabelInputs, NotesInputs, SectionInputs}

(***************************************************************************)
(* A run of selectFieldValue on one item and selector                      *)
(***************************************************************************)
InitSelect ==
    /\ fn = "selectFieldValue"
    /\ \E d \in SelectInputs, nf \in 0..MaxFields, ns \in 0..MaxSections :
         \E ls \in [1..nf -> d.labels], vs \in [1..nf -> d.values],
            ps \in [1..nf -> d.purposes], rs \in [1..nf -> d.refs],
            ss \in [1..ns -> d.sections], n \in d.notesSet, s \in d.selectors :
             args = [item |-> [Title |-> Sample,
                               Fields |-> [i \in 1..nf |->
                                              [Label |-> ls[i], Value |-> vs[i],
                                               Purpose |-> ps[i], Section |-> rs[i]]],
                               Sections |-> ss,
                               NotesPlain |-> n],
                     selector |-> s]
    /\ ret = NotCalled
    /\ NoFind

CallSelect ==
    /\ fn = "selectFieldValue"
    /\ ~ret.called
    /\ ret' = Returned(selectFieldValue(args.item, args.selector))
    /\ UNCHANGED <<fn, args, pc, local, calls>>

NextSelect == CallSelect

SpecSelect == InitSelect /\ [][NextSelect]_vars


(***************************************************************************)
(* Requests, and what the store may answer                                 *)
(***************************************************************************)
MaxMatches == 2

ServiceKeys == <<"S", "e", "r", "v", "i", "c", "e", " ", "K", "e", "y", "s">>

hunter2 == <<"h", "u", "n", "t", "e", "r", "2">>

ProductionVault == <<"P", "r", "o", "d", "u", "c", "t", "i", "o", "n", " ", "V", "a", "u", "l", "t">>

DatabaseCredentials == <<"D", "a", "t", "a", "b", "a", "s", "e", " ", "C", "r", "e", "d", "e", "n", "t", "i", "a", "l", "s">>

\* the paths of the requests: the three kinds of selector, blanks around the
\* segments, and the two malformed paths
FindPaths ==
    {ProductionVault \o <<Slash>> \o DatabaseCredentials,
     ProductionVault \o <<Slash>> \o Sample \o <<Slash>> \o Password,
     <<" ">> \o ProductionVault \o <<" ", Slash, " ">> \o Sample \o <<" ", Slash, " ">>
         \o Upper(notes) \o <<" ">>,
     ProductionVault \o <<Slash>> \o Sample \o <<Slash>>
         \o ServiceKeys \o <<" ", Slash, " ">> \o Token,
     OnlyVault,
     VaultBlankField}

Requests ==
    {NilRequest} \cup
    {[isNil |-> FALSE, Name |-> n, Path |-> p] :
        n \in {EmptyString, <<"d", "b", "_", "p", "a", "s", "s", "w", "o", "r", "d">>, <<"a", "p", "i", "_", "t", "o", "k", "e", "n">>},
        p \in FindPaths}

\* the item of TestSelectFieldValue
SampleItem ==
    [Title |-> Sample,
     Fields |-> <<[Label |-> <<"U", "s", "e", "r", "n", "a", "m", "e">>, Value |-> <<"o", "c", "t", "o", "c", "a", "t">>,
                   Purpose |-> EmptyString, Section |-> NilSection],
                  [Label |-> Password, Value |-> hunter2,
                   Purpose |-> PASSWORD, Section |-> NilSection],
                  [Label |-> Token, Value |-> <<"a", "b", "c", "1", "2", "3">>,
                   Purpose |-> EmptyString, Section |-> SectionRef(<<"s", "e", "c">>)]>>,
     Sections |-> <<[ID |-> <<"s", "e", "c">>, Label |-> ServiceKeys]>>,
     NotesPlain |-> <<"s", "e", "c", "r", "e", "t", " ", "n", "o", "t", "e">>]

\* the item of TestPluginFind
DatabaseCredentialsItem ==
    [Title |-> DatabaseCredentials,
     Fields |-> <<[Label |-> Password, Value |-> hunter2,
                   Purpose |-> PASSWORD, Section |-> NilSection]>>,
     Sections |-> <<>>,
     NotesPlain |-> EmptyString]

\* an item with two password fields
TwoPasswordsItem ==
    [Title |-> Sample,
     Fields |-> <<[Label |-> Password, Value |-> hunter2,
                   Purpose |-> PASSWORD, Section |-> NilSection],
                  [Label |-> Token, Value |-> <<"a", "b", "c", "1", "2", "3">>,
                   Purpose |-> PASSWORD, Section |-> NilSection]>>,
     Sections |-> <<>>,
     NotesPlain |-> EmptyString]

StoreItems == {SampleItem, DatabaseCredentialsItem, TwoPasswordsItem}

StoreVaults ==
    {[isNil |-> FALSE, ID |-> id, Name |-> ProductionVault] : id \in {<<"v", "1">>, <<"v", "2">>}}

StoreItemSummaries ==
    {[isNil |-> FALSE, ID |-> <<"i", "1">>, Title |-> DatabaseCredentials],
     [isNil |-> FALSE, ID |-> <<"i", "2">>, Title |-> Sample]}

\* resp.Status, the status line of the response
StatusLine(code) ==
    CASE code = 101 -> "101 Switching Protocols"
      [] code = 200 -> "200 OK"
      [] code = 299 -> "299 "
      [] code = 300 -> "300 Multiple Choices"
      [] code = 429 -> "429 Too Many Requests"

StatusCodes == {101, 200, 299, 300, 429}

\* the bodies of a list endpoint and of the item endpoint
ErrorBodies ==
    {[json |-> "invalid"]} \cup {[json |-> "error", message |-> m] : m \in {"", "rate limited"}}

ListBodies(elements) ==
    ErrorBodies \cup {[json |-> "array", list |-> l] : l \in Strings(elements, MaxMatches)}

ItemBodies == ErrorBodies \cup {[json |-> "item", item |-> i] : i \in StoreItems}

\* context.Background(): not cancelled; at is the place Find was at when the
\* caller cancelled
Background == [done |-> FALSE, at |-> ""]

Responses(bodies) ==
    {[transport |-> "connection refused", StatusCode |-> 0, Status |-> "",
      Body |-> [json |-> "none"]]} \cup
    {[transport |-> "", StatusCode |-> c, Status |-> StatusLine(c), Body |-> b] :
        c \in StatusCodes, b \in bodies}

\* what a store call made at the place `at` of Find comes back with.  The
\* context of the request governs the connection, the sending, and the
\* reading of the response's headers and body: once it is cancelled Do fails
\* with the context's error, or, when the headers had arrived before the
\* caller cancelled during this call, the read of the body fails with it (a
\* response of a status below 200 has no body to read).
Outcomes(ctx, at, bodies) ==
    IF ~ctx.done
    THEN Responses(bodies)
    ELSE {[transport |-> Canceled.msg, StatusCode |-> 0, Status |-> "",
           Body |-> [json |-> "none"]]} \cup
         {[transport |-> "", StatusCode |-> c, Status |-> StatusLine(c),
           Body |-> [json |-> "canceled"]] :
              c \in IF ctx.at = at THEN {k \in StatusCodes : k >= 200} ELSE {}}

(***************************************************************************)
(* A run of Find on one request                                            *)
(***************************************************************************)
Init ==
    /\ fn = "Find"
    /\ args \in {[ctx |-> Background, req |-> r] : r \in Requests}
    /\ ret = NotCalled
    /\ pc = "start"
    /\ local = [vaultName |-> EmptyString, itemTitle |-> EmptyString,
                fieldSelector |-> EmptyString, vault |-> NilVault,
                itemSummary |-> NilItemSummary, item |-> ZeroItem]
    /\ calls = <<>>

\* Find up to the first store call: the checks of the request and the parse
Begin ==
    /\ pc = "start"
    /\ LET req == args.req
           parsed == parseSecretPath(req.Path)
       IN  IF IsError(checkRequest(req))
           THEN Return(NilSecret, checkRequest(req)) /\ UNCHANGED local
           ELSE IF IsError(parsed.err)
           THEN Return(NilSecret, parsed.err) /\ UNCHANGED local
           ELSE /\ local' = [local EXCEPT !.vaultName = parsed.vault,
                                          !.itemTitle = parsed.item,
                                          !.fieldSelector = parsed.field]
                /\ pc' = "findVaultByName"
                /\ UNCHANGED ret
    /\ UNCHANGED <<fn, args, calls>>

\* findVaultByName sends its request
SendVaults ==
    /\ pc = "findVaultByName"
    /\ calls' = Append(calls, Sent(VaultsRequest(local.vaultName)))
    /\ pc' = "vaults"
    /\ UNCHANGED <<fn, args, ret, local>>

\* the store answers; findVaultByName returns and Find goes on or returns
ReceiveVaults ==
    /\ pc = "vaults"
    /\ \E resp \in Outcomes(args.ctx, pc, ListBodies(StoreVaults)) :
         LET r == findVaultByName(resp, local.vaultName) IN
         /\ calls' = Answer(resp)
         /\ IF IsError(r.err)
            THEN /\ Return(NilSecret, Wrap("lookup vault %q: %w", <<local.vaultName>>, r.err))
                 /\ UNCHANGED local
            ELSE /\ local' = [local EXCEPT !.vault = r.out]
                 /\ pc' = "findItemByTitle"
                 /\ UNCHANGED ret
    /\ UNCHANGED <<fn, args>>

\* findItemByTitle sends its request
SendItems ==
    /\ pc = "findItemByTitle"
    /\ calls' = Append(calls, Sent(ItemsRequest(local.vault.ID, local.itemTitle)))
    /\ pc' = "items"
    /\ UNCHANGED <<fn, args, ret, local>>

ReceiveItems ==
    /\ pc = "items"
    /\ \E resp \in Outcomes(args.ctx, pc, ListBodies(StoreItemSummaries)) :
         LET r == findItemByTitle(resp, local.vault.ID, local.itemTitle) IN
         /\ calls' = Answer(resp)
         /\ IF IsError(r.err)
            THEN /\ Return(NilSecret, Wrap("lookup item %q: %w", <<local.itemTitle>>, r.err))
                 /\ UNCHANGED local
            ELSE /\ local' = [local EXCEPT !.itemSummary = r.out]
                 /\ pc' = "getItem"
                 /\ UNCHANGED ret
    /\ UNCHANGED <<fn, args>>

\* getItem sends its request
SendItem ==
    /\ pc = "getItem"
    /\ calls' = Append(calls, Sent(ItemRequest(local.vault.ID, local.itemSummary.ID)))
    /\ pc' = "item"
    /\ UNCHANGED <<fn, args, ret, local>>

ReceiveItem ==
    /\ pc = "item"
    /\ \E resp \in Outcomes(args.ctx, pc, ItemBodies) :
         LET r == getItem(resp) IN
         /\ calls' = Answer(resp)
         /\ IF IsError(r.err)
            THEN /\ Return(NilSecret, Wrap("load item %q: %w", <<local.itemTitle>>, r.err))
                 /\ UNCHANGED local
            ELSE /\ local' = [local EXCEPT !.item = r.out]
                 /\ pc' = "selectFieldValue"
                 /\ UNCHANGED ret
    /\ UNCHANGED <<fn, args>>

\* Select choosing the default password whatever the selector
Select_NoSelector ==
    /\ pc = "selectFieldValue"
    /\ LET r == selectFieldValue(local.item, EmptyString) IN
       IF IsError(r.err)
       THEN Return(NilSecret, r.err)
       ELSE Return(Secret(args.req.Name, r.value), NoError)
    /\ UNCHANGED <<fn, args, local, calls>>

\* Find from the fetched item on: the field is selected and Find returns
Select ==
    /\ pc = "selectFieldValue"
    /\ LET r == selectFieldValue(local.item, local.fieldSelector) IN
       IF IsError(r.err)
       THEN Return(NilSecret, r.err)
       ELSE Return(Secret(args.req.Name, r.value), NoError)
    /\ UNCHANGED <<fn, args, local, calls>>

\* the caller cancels the context it gave to Find
Cancel ==
    /\ fn = "Find"
    /\ pc # "done"
    /\ ~args.ctx.done
    /\ args' = [args EXCEPT !.ctx = [done |-> TRUE, at |-> pc]]
    /\ UNCHANGED <<fn, ret, pc, local, calls>>

Next ==
    \/ Cancel
    \/ Begin
    \/ SendVaults
    \/ ReceiveVaults
    \/ SendItems
    \/ ReceiveItems
    \/ SendItem
    \/ ReceiveItem
    \/ Select

Spec == Init /\ [][Next]_vars


(***************************************************************************)
(* Vocabulary of the properties, stated on positions rather than computed  *)
(* the way the code computes                                               *)
(***************************************************************************)
Min(S) == CHOOSE x \in S : \A y \in S : x <= y

Positions(s, c) == {i \in 1..Len(s) : s[i] = c}

HasNonSpace(s) == \E i \in 1..Len(s) : ~IsSpace(s[i])

\* t is s without its leading and trailing white space
IsTrimOf(t, s) ==
    /\ t # <<>> => ~IsSpace(t[1]) /\ ~IsSpace(t[Len(t)])
    /\ \E a \in 0..Len(s) :
         /\ a + Len(t) <= Len(s)
         /\ SubSeq(s, a + 1, a + Len(t)) = t
         /\ \A i \in (1..a) \cup ((a + Len(t) + 1)..Len(s)) : IsSpace(s[i])

\* the part of s before its first "/" and the part after it
BeforeSlash(s) == SubSeq(s, 1, Min(Positions(s, Slash)) - 1)

AfterSlash(s) == SubSeq(s, Min(Positions(s, Slash)) + 1, Len(s))

\* the path has a "/" and non-blank first and second segments
WellFormed(p) ==
    /\ Positions(p, Slash) # {}
    /\ HasNonSpace(BeforeSlash(p))
    /\ HasNonSpace(IF Positions(AfterSlash(p), Slash) = {}
                   THEN AfterSlash(p)
                   ELSE BeforeSlash(AfterSlash(p)))

ParseReturned == fn = "parseSecretPath" /\ ret.called

SelectReturned == fn = "selectFieldValue" /\ ret.called

\* C1: parseSecretPath succeeds exactly when the path holds a "/" and its first
\* and second segments are non-blank; it then returns the two segments trimmed
\* and, as selector, the whole remainder after the second "/" trimmed (empty
\* when there is no second "/"); a failure returns three empty strings.
C1_ParseSecretPath ==
    ParseReturned =>
        LET p == args.path
            out == ret.out
        IN  /\ ~IsError(out.err) <=> WellFormed(p)
            /\ WellFormed(p) =>
                 LET rest == AfterSlash(p) IN
                 /\ IsTrimOf(out.vault, BeforeSlash(p))
                 /\ IF Positions(rest, Slash) = {}
                    THEN IsTrimOf(out.item, rest) /\ out.field = EmptyString
                    ELSE /\ IsTrimOf(out.item, BeforeSlash(rest))
                         /\ IsTrimOf(out.field, AfterSlash(rest))
            /\ ~WellFormed(p) =>
                 out.vault = EmptyString /\ out.item = EmptyString /\ out.field = EmptyString
            /\ p \in {OnlyVault, VaultBlankField} => IsError(out.err)

\* a path with blanks around its segments whose selector holds a "/" has been parsed
C1_Witness ==
    /\ ParseReturned
    /\ ~IsError(ret.out.err)
    /\ Positions(ret.out.field, Slash) # {}
    /\ ret.out.vault # BeforeSlash(args.path)


\* the positions of the item's fields that satisfy Test
FieldsWhere(item, Test(_)) == {i \in 1..Len(item.Fields) : Test(item.Fields[i])}

\* the password candidates: purpose PASSWORD in any letter case, value set
IsPasswordCandidate(field) ==
    EqualFold(field.Purpose, PASSWORD) /\ field.Value # EmptyString

IsSetPasswordLabel(field) ==
    EqualFold(field.Label, password) /\ field.Value # EmptyString

TheValue(item, positions) == item.Fields[CHOOSE i \in positions : TRUE].Value

IsQualified(selector) ==
    Positions(selector, Slash) # {} /\ HasNonSpace(BeforeSlash(selector))

IsNotesKeyword(selector) == EqualFold(selector, notes) \/ EqualFold(selector, notesPlain)

Max(S) == CHOOSE x \in S : \A y \in S : x >= y

\* s from its first to its last character that is no white space
Trimmed(s) ==
    LET inked == {i \in 1..Len(s) : ~IsSpace(s[i])} IN
    IF inked = {} THEN EmptyString ELSE SubSeq(s, Min(inked), Max(inked))

\* C4: a selector "S / L" fails with section-not-found when no section is
\* labelled S (in any letter case); otherwise the fields that refer to any of
\* the sections labelled S, are labelled L and have a value decide: one is
\* returned, none is field-not-found, several are an ambiguity error, also
\* when they sit in different sections labelled S.
C4_SectionQualified ==
    SelectReturned /\ IsQualified(args.selector) =>
        LET item == args.item
            S == Trimmed(BeforeSlash(args.selector))
            L == Trimmed(AfterSlash(args.selector))
            ids == {sec.ID : sec \in {item.Sections[j] : j \in
                       {k \in 1..Len(item.Sections) : EqualFold(item.Sections[k].Label, S)}}}
            inSection(field) ==
                /\ ~field.Section.isNil
                /\ field.Section.ID \in ids
                /\ EqualFold(field.Label, L)
                /\ field.Value # EmptyString
            M == FieldsWhere(item, inSection)
            out == ret.out
        IN  /\ ids = {} =>
                 out = Failed(Errorf("section %q not found in item %q", <<S, item.Title>>))
            /\ ids # {} /\ Cardinality(M) = 1 => out = Found(TheValue(item, M))
            /\ ids # {} /\ M = {} =>
                 out = Failed(Errorf("field %q not found in section %q", <<L, S>>))
            /\ ids # {} /\ Cardinality(M) > 1 =>
                 out = Failed(Errorf("field %q is duplicated in section %q", <<L, S>>))

\* two fields with the selector's label, in two sections that share the
\* selector's section label, were refused as ambiguous
C4_Witness ==
    /\ SelectReturned
    /\ IsQualified(args.selector)
    /\ Len(args.item.Sections) = 2
    /\ args.item.Sections[1].ID # args.item.Sections[2].ID
    /\ \A j \in 1..2 :
         EqualFold(args.item.Sections[j].Label, Trimmed(BeforeSlash(args.selector)))
    /\ Len(args.item.Fields) = 2
    /\ \A i \in 1..2 :
         /\ ~args.item.Fields[i].Section.isNil
         /\ args.item.Fields[i].Section.ID = args.item.Sections[i].ID
         /\ EqualFold(args.item.Fields[i].Label, Trimmed(AfterSlash(args.selector)))
         /\ args.item.Fields[i].Value # EmptyString
    /\ ret.out.err.type = "errorString"
    /\ ret.out.err.msg = "field %q is duplicated in section %q"

\* C5: a selector without a section part that is not the notes keyword looks
\* at every field labelled like the trimmed selector (in any letter case) that
\* has a value, in a section or not: one is returned, none is field-not-found,
\* several are an ambiguity error asking for a section-qualified label, and
\* no value is returned.  (The empty selector is the default lookup of C2; a
\* selector with only blanks before its "/" is looked up by what follows the
\* "/".)
C5_UnqualifiedLabel ==
    SelectReturned /\ args.selector # EmptyString /\ ~IsQualified(args.selector)
                   /\ ~IsNotesKeyword(args.selector) =>
        LET item == args.item
            L == IF Positions(args.selector, Slash) = {}
                 THEN Trimmed(args.selector)
                 ELSE Trimmed(AfterSlash(args.selector))
            labelled(field) == EqualFold(field.Label, L) /\ field.Value # EmptyString
            M == FieldsWhere(item, labelled)
            out == ret.out
        IN  /\ Cardinality(M) = 1 => out = Found(TheValue(item, M))
            /\ M = {} =>
                 out = Failed(Errorf("field %q not found in item %q", <<L, item.Title>>))
            /\ Cardinality(M) > 1 =>
                 /\ out.value = EmptyString
                 /\ out.err = Errorf("field label %q is ambiguous in item %q; use a section-qualified label",
                                     <<L, item.Title>>)

\* two fields labelled like the selector up to letter case, one of them in a
\* section, with different values: refused, no value returned
C5_Witness ==
    /\ SelectReturned
    /\ args.selector # EmptyString
    /\ Positions(args.selector, Slash) = {}
    /\ Len(args.item.Fields) = 2
    /\ \A i \in 1..2 :
         /\ EqualFold(args.item.Fields[i].Label, args.selector)
         /\ args.item.Fields[i].Value # EmptyString
    /\ args.item.Fields[1].Label # args.item.Fields[2].Label
    /\ args.item.Fields[1].Value # args.item.Fields[2].Value
    /\ args.item.Fields[1].Section.isNil # args.item.Fields[2].Section.isNil
    /\ IsError(ret.out.err)
    /\ ret.out.value = EmptyString

\* C6: the selectors "notes" and "notesPlain", in any letter case, return the
\* item's notes when there are any and fail with a not-found error otherwise,
\* whatever fields the item has; so the two are equivalent.
C6_NotesSelectors ==
    SelectReturned /\ IsNotesKeyword(args.selector) =>
        LET item == args.item
            out == ret.out
        IN  /\ item.NotesPlain # EmptyString => out = Found(item.NotesPlain)
            /\ item.NotesPlain = EmptyString =>
                 out = Failed(Errorf("item %q does not contain notes", <<item.Title>>))
            /\ out = selectFieldValue(item, notes)
            /\ out = selectFieldValue(item, notesPlain)

\* "notesPlain" in another letter case returned the notes of an item that
\* also has a field labelled notesPlain with a value
C6_Witness ==
    /\ SelectReturned
    /\ EqualFold(args.selector, notesPlain)
    /\ args.selector # notesPlain
    /\ \E i \in 1..Len(args.item.Fields) :
         args.item.Fields[i].Label = notesPlain /\ args.item.Fields[i].Value # EmptyString
    /\ args.item.NotesPlain # EmptyString
    /\ ret.out = Found(args.item.NotesPlain)


(***************************************************************************)
(* Properties of Find, stated on the request, the responses of the store   *)
(* and what Find returned                                                  *)
(***************************************************************************)
FindReturned == fn = "Find" /\ ret.called

\* the vault name, the item title and the selector a well-formed path asks for
RequestedVault(p) == Trimmed(BeforeSlash(p))

RequestedItem(p) ==
    Trimmed(IF Positions(AfterSlash(p), Slash) = {}
            THEN AfterSlash(p)
            ELSE BeforeSlash(AfterSlash(p)))

RequestedSelector(p) ==
    IF Positions(AfterSlash(p), Slash) = {}
    THEN EmptyString
    ELSE Trimmed(AfterSlash(AfterSlash(p)))

\* the i-th call was answered with a status in 200..299
Success(i) ==
    /\ i <= Len(calls)
    /\ calls[i].answered
    /\ calls[i].resp.transport = ""
    /\ calls[i].resp.StatusCode \in 200..299

\* the i-th call was answered with a list of n elements, with a full item
Listed(i, n) ==
    Success(i) /\ calls[i].resp.Body.json = "array" /\ Len(calls[i].resp.Body.list) = n

ListedSeveral(i) ==
    Success(i) /\ calls[i].resp.Body.json = "array" /\ Len(calls[i].resp.Body.list) >= 2

Fetched(i) == Success(i) /\ calls[i].resp.Body.json = "item"

\* Find returned this error and no secret
Refused(err) == FindReturned /\ ret.out = [secret |-> NilSecret, err |-> err]

\* C7: zero vaults for the name filter is a vault-not-found error naming the
\* requested vault, two or more an ambiguous-vault error, and exactly one
\* vault lets Find go on with that vault's id; the same for the items of the
\* title filter.  In the failing cases Find returns no secret and sends
\* nothing more.
C7_ExactlyOne ==
    fn = "Find" =>
        LET name == RequestedVault(args.req.Path)
            title == RequestedItem(args.req.Path)
            vaultID == calls[1].resp.Body.list[1].ID
            itemID == calls[2].resp.Body.list[1].ID
        IN  /\ Listed(1, 0) =>
                 /\ Refused(Wrap("lookup vault %q: %w", <<name>>,
                                 Errorf("vault %q not found", <<name>>)))
                 /\ Len(calls) = 1
            /\ ListedSeveral(1) =>
                 /\ Refused(Wrap("lookup vault %q: %w", <<name>>,
                                 Errorf("multiple vaults match name %q", <<name>>)))
                 /\ Len(calls) = 1
            /\ Listed(1, 1) =>
                 IF Len(calls) = 1
                 THEN ~ret.called /\ local.vault.ID = vaultID
                 ELSE calls[2].req = ItemsRequest(vaultID, title)
            /\ Listed(2, 0) =>
                 /\ Refused(Wrap("lookup item %q: %w", <<title>>,
                                 Errorf("item %q not found in vault %q", <<title, vaultID>>)))
                 /\ Len(calls) = 2
            /\ ListedSeveral(2) =>
                 /\ Refused(Wrap("lookup item %q: %w", <<title>>,
                                 Errorf("multiple items named %q found in vault %q",
                                        <<title, vaultID>>)))
                 /\ Len(calls) = 2
            /\ Listed(2, 1) =>
                 IF Len(calls) = 2
                 THEN ~ret.called /\ local.itemSummary.ID = itemID
                 ELSE calls[3].req = ItemRequest(vaultID, itemID)

\* the store answered the title filter with two different items and Find
\* returned the ambiguous-item error
C7_Witness ==
    /\ FindReturned
    /\ Listed(1, 1)
    /\ Listed(2, 2)
    /\ calls[2].resp.Body.list[1] # calls[2].resp.Body.list[2]
    /\ ret.out.err.cause.msg = "multiple items named %q found in vault %q"

\* C8: a response with a status outside 200..299 makes the call return an API
\* error with that status and, as message, the message of the JSON error
\* payload when there is a non-empty one and the status line otherwise; the
\* body is not decoded as a result, so Find returns that error and sends
\* nothing more.  A transport failure is an error of another kind.
C8_ApiError ==
    fn = "Find" =>
        \A i \in 1..Len(calls) :
            LET resp == calls[i].resp
                message == IF resp.Body.json = "error" /\ resp.Body.message # ""
                           THEN resp.Body.message
                           ELSE resp.Status
            IN  /\ calls[i].answered /\ resp.transport = "" /\ resp.StatusCode \notin 200..299 =>
                     /\ FindReturned
                     /\ ret.out.secret = NilSecret
                     /\ ret.out.err.type = "wrapError"
                     /\ ret.out.err.cause =
                            [type |-> "apiError", msg |-> "1Password Connect error (%d): %s",
                             StatusCode |-> resp.StatusCode, Message |-> message]
                     /\ i = Len(calls)
                /\ calls[i].answered /\ resp.transport # "" =>
                     /\ FindReturned
                     /\ ret.out.secret = NilSecret
                     /\ ret.out.err.type = "wrapError"
                     /\ ret.out.err.cause.type \notin {"apiError", "nil"}
                     /\ i = Len(calls)

\* the store answered the vault lookup with status 300 and a body that lists
\* exactly one vault: Find returned the API error with the status line
C8_Witness ==
    /\ FindReturned
    /\ Len(calls) = 1
    /\ calls[1].resp.StatusCode = 300
    /\ calls[1].resp.Body.json = "array"
    /\ Len(calls[1].resp.Body.list) = 1
    /\ ret.out.err.cause.type = "apiError"
    /\ ret.out.err.cause.StatusCode = 300
    /\ ret.out.err.cause.Message = "300 Multiple Choices"

\* C9: when the request has a name and a well-formed path and the store
\* answers with one vault, one item summary and a full item, Find returns the
\* secret named like the request whose Data is what selectFieldValue returns
\* for that item and the selector of the path, or returns the error of
\* selectFieldValue and no secret.
C9_EndToEnd ==
    FindReturned /\ Listed(1, 1) /\ Listed(2, 1) /\ Fetched(3) =>
        LET req == args.req
            fetched == calls[3].resp.Body.item
            r == selectFieldValue(fetched, RequestedSelector(req.Path))
        IN  /\ ~req.isNil /\ req.Name # EmptyString /\ WellFormed(req.Path)
            /\ calls[2].req.ids = <<calls[1].resp.Body.list[1].ID>>
            /\ calls[3].req.ids = <<calls[1].resp.Body.list[1].ID,
                                    calls[2].resp.Body.list[1].ID>>
            /\ IF IsError(r.err)
               THEN ret.out = [secret |-> NilSecret, err |-> r.err]
               ELSE ret.out = [secret |-> [isNil |-> FALSE, Name |-> req.Name,
                                           Data |-> r.value, PullRequest |-> FALSE],
                               err |-> NoError]
            /\ req.Path = ProductionVault \o <<Slash>> \o DatabaseCredentials
               /\ fetched = DatabaseCredentialsItem
               => ret.out.secret.Data = hunter2

\* a section-qualified selector resolved to the token of the sample item
C9_Witness ==
    /\ FindReturned
    /\ Listed(1, 1) /\ Listed(2, 1) /\ Fetched(3)
    /\ IsQualified(RequestedSelector(args.req.Path))
    /\ calls[3].resp.Body.item = SampleItem
    /\ ~ret.out.secret.isNil
    /\ ret.out.secret.Name = args.req.Name
    /\ ret.out.secret.Data = SampleItem.Fields[3].Value

\* C10: nothing is sent for a nil request, an empty name or a malformed path;
\* otherwise the requests are the vault lookup, the item lookup and the item
\* fetch, in this order and each at most once, each sent only after the one
\* before was answered with exactly one result and built from the ids of
\* those results; a call that failed is the last one.
C10_CallOrder ==
    fn = "Find" =>
        LET req == args.req IN
        /\ req.isNil \/ req.Name = EmptyString \/ ~WellFormed(req.Path) => calls = <<>>
        /\ Len(calls) <= 3
        /\ \A i \in 1..Len(calls) :
             /\ i < Len(calls) => Listed(i, 1)
             /\ ~calls[i].answered => i = Len(calls) /\ ~ret.called
        /\ Len(calls) >= 1 =>
             calls[1].req = [path |-> "vaults", ids |-> <<>>,
                             filter |-> <<"name", RequestedVault(req.Path)>>]
        /\ Len(calls) >= 2 =>
             calls[2].req = [path |-> "vaults/%s/items",
                             ids |-> <<calls[1].resp.Body.list[1].ID>>,
                             filter |-> <<"title", RequestedItem(req.Path)>>]
        /\ Len(calls) >= 3 =>
             calls[3].req = [path |-> "vaults/%s/items/%s",
                             ids |-> <<calls[1].resp.Body.list[1].ID,
                                       calls[2].resp.Body.list[1].ID>>,
                             filter |-> <<>>]

\* the three calls were sent in order and the third was answered
C10_Witness ==
    /\ fn = "Find"
    /\ Len(calls) = 3
    /\ calls[3].answered
    /\ calls[1].resp.Body.list[1].ID # calls[2].resp.Body.list[1].ID

\* C11: every error Find returns, at whichever step it arises (request
\* validation, path parsing, vault lookup, item lookup, item fetch, field
\* selection), is a wrapping error: its message names the operation that
\* failed, its arguments name the identifier that failed, and the error of
\* the step is its cause; in particular the error of parseSecretPath is
\* returned wrapped, never as parseSecretPath made it.
C11_EveryErrorWrapped ==
    FindReturned /\ IsError(ret.out.err) =>
        /\ ret.out.err.type = "wrapError"
        /\ ret.out.err.args # <<>>
        /\ IsError(ret.out.err.cause)
        /\ ret.out.err # parseSecretPath(args.req.Path).err

\* errors.Is(err, context.Canceled): err or an error it wraps is the error of
\* a cancelled context
RECURSIVE IsCancellation(_)
IsCancellation(err) ==
    CASE err.type = "wrapError" -> IsCancellation(err.cause)
      [] err.type = "urlError" -> err.args = <<Canceled.msg>>
      [] OTHER -> err = Canceled

\* the store call that was in flight, or was the next to be issued, at the
\* place where Find was when the caller cancelled (4: none)
CancelledCall(at) ==
    CASE at \in {"start", "findVaultByName", "vaults"} -> 1
      [] at \in {"findItemByTitle", "items"} -> 2
      [] at \in {"getItem", "item"} -> 3
      [] OTHER -> 4

InFlight(at) == at \in {"vaults", "items", "item"}

\* C12: when the caller's context is cancelled while a store call of Find is
\* in flight, or before a store call Find goes on to issue, then once that
\* call is over it is the last store call, and Find has returned no secret
\* and an error of the cancellation kind.
C12_Cancellation ==
    fn = "Find" /\ args.ctx.done =>
        LET i == CancelledCall(args.ctx.at) IN
        i <= Len(calls) /\ calls[i].answered =>
            /\ i = Len(calls)
            /\ FindReturned
            /\ ret.out.secret = NilSecret
            /\ IsCancellation(ret.out.err)

\* what holds of a cancelled call: it is the last one and Find returns no
\* secret; the error is of the cancellation kind unless the call was in
\* flight and the store's status was not a success, and then it is the
\* apiError of that status with the status line as its message
CancelledCallFails ==
    fn = "Find" /\ args.ctx.done =>
        LET i == CancelledCall(args.ctx.at) IN
        i <= Len(calls) /\ calls[i].answered =>
            LET resp == calls[i].resp IN
            /\ i = Len(calls)
            /\ FindReturned
            /\ ret.out.secret = NilSecret
            /\ ret.out.err.type = "wrapError"
            /\ IF resp.transport = "" /\ resp.StatusCode \notin 200..299
               THEN /\ InFlight(args.ctx.at)
                    /\ ret.out.err.cause = apiError(resp.StatusCode, resp.Status)
               ELSE IsCancellation(ret.out.err)

\* the context was cancelled during the item fetch and Find returned the
\* cancellation
CancelledInFlight ==
    /\ FindReturned
    /\ args.ctx.at = "item"
    /\ Len(calls) = 3
    /\ calls[3].resp.StatusCode = 200
    /\ IsCancellation(ret.out.err)

=============================================================================
